---- MODULE Spec2Model ----
(***************************************************************************)
(* Polar3D slicing worker: the job pipeline of src/server.js               *)
(* (processMessage and the stages it chains), the helpers of lib/index.js  *)
(* it calls, and the lease queue it drives through the queue module.       *)
(*                                                                         *)
(* One "job" is one delivery of a queue message to processMessage; its     *)
(* identity doubles as the receipt handle of that delivery.                *)
(***************************************************************************)
EXTENDS Integers, Sequences, FiniteSets, TLC

\* ---------------------------------------------------------------- bounds
NumMsgs == 1
MaxJobs == 2
MaxDbFailures == 1
MaxDeliveries == 2
MaxFiles == 3
MaxTicks == 1
MaxSliceSeconds == 2
MaxSegments == 4

\* ------------------------------------------------------ program constants
STATE_WAITING == 0
STATE_PRE == 1
STATE_RUN == 2
STATE_POST == 3
STATE_DONE == 4
STATE_FAIL == -1
STATE_ERR == -2

LeaseDuration == 60
RenewPeriod == 30

Msgs == 1..NumMsgs
Jobs == 1..MaxJobs
NoMsg == 0

mustHave == <<"config_file", "gcode_file", "handle", "job_id", "job_oid", "stl_file">>
Fields == {mustHave[i] : i \in 1..Len(mustHave)}
Resources == {"stl", "config", "gcode"}

\* What a producer can put on the queue: every required field, or all but
\* one of them; each resource URL either a string URL.parse/path.parse accept
\* or a value they throw on.
RawMessages ==
    {[fields |-> Fields, badUrl |-> {}]}
    \cup {[fields |-> Fields \ {f}, badUrl |-> {}] : f \in Fields}
    \cup {[fields |-> Fields, badUrl |-> {r}] : r \in Resources}

VARIABLES
    raw,            \* raw[m]: the message body as enqueued
    qDeleted,       \* qDeleted[m]: the message was deleted from its queue
    lease,          \* lease[m]: time the message stays hidden from consumers
    deliveries,     \* deliveries[m]: times the message was handed out
    tracked,        \* the lease set: handles the renewal sweep renews
    runningProcesses,
    held,           \* held[j]: sweeps that found handle j tracked, saturating
    dbFailures,     \* status writes that failed so far
    recExists,      \* recExists[m]: the print job document still exists
    doc,            \* doc[m]: the slicing status document
    pc,             \* pc[j]: where the promise chain of job j stands
    jmsg,           \* jmsg[j]: the message job j was handed
    dl,             \* dl[j][r]: state of the download of resource r
    files,          \* files[j]: local files of job j that exist
    unlinks,        \* unlinks[j]: fs.unlink calls issued and not finished
    pendingWrite,   \* pendingWrite[j]: detached updateState call in flight
    err,            \* err[j]: message of the error the chain rejected with
    jobsSucceeded, jobsFailed, jobsFailedSlicing, jobsCanceled,
    ev,             \* history: ev[j] the events job j has gone through
    attempted,      \* history: states job j asked updateState to write
    written,        \* history: states job j's writes stored in the document
    lastRenewed,    \* history: handles the latest sweep renewed
    nCanceled, nSlicerFailed, nTransient, nDone,
                    \* history: awaited writes that found no record, abnormal
                    \* slicer exits, failed transfers that rejected a chain,
                    \* DONE writes that resolved
    dispositions,   \* history: removeMessage/requeueMessage calls of job j
    now,            \* the wall clock, in half hours
    stats,          \* stats[id]: the Stats document with that _id
    statsLost,      \* history: a Stats.update call failed
    slicing_time,   \* slicing_time[j]: msg.slicing_time[0], milliseconds
    totalSlicingTime,
                    \* the in-memory cumulative slicing time, seconds
    nSliced,        \* history: slicer runs that exited with code zero
    rf,             \* one call of lib.removeFiles taken by itself
    pu              \* one call of lib.parseUrl taken by itself

vars == <<raw, qDeleted, lease, deliveries, tracked, runningProcesses, held, dbFailures,
          recExists, doc, pc, jmsg, dl, files, unlinks,
          pendingWrite, err, jobsSucceeded, jobsFailed, jobsFailedSlicing,
          jobsCanceled, ev, attempted, written, lastRenewed, nCanceled,
          nSlicerFailed, nTransient, nDone, dispositions, now, stats,
          statsLost, slicing_time, totalSlicingTime, nSliced, rf, pu>>

queueVars == <<qDeleted, lease, tracked, runningProcesses, held, dispositions>>
clockVars == <<deliveries, lastRenewed>>
histVars == <<nCanceled, nSlicerFailed, nTransient, nDone>>
counterVars == <<jobsSucceeded, jobsFailed, jobsFailedSlicing, jobsCanceled>>
fileVars == <<files, unlinks>>

\* A resource URL the parsers accept, as the segments of its path: the
\* bucket, then the key's directories and file name.
UrlPath == <<"bucket", "prints", "job.gcode">>

\* The 'waiting' placeholder of the gcode_file field.
Waiting == <<"waiting">>

NoDoc == [status |-> STATE_WAITING, gcode_file |-> Waiting, detail |-> "fixed", by |-> 0]
NoErr == [isError |-> FALSE, text |-> "none"]
NoWrite == [state |-> STATE_WAITING, e |-> NoErr]

Min(a, b) == IF a < b THEN a ELSE b
Max(a, b) == IF a > b THEN a ELSE b

\* Sweeps after which the lease a claim gave has run out.
Outlast == LeaseDuration \div RenewPeriod

\* ------------------------------------------------------------ lib helpers

\* processMessage's loop over mustHave: the first required field the message
\* lacks. Line 365 has assigned msg.job_oid before the loop runs, so the
\* loop sees job_oid in every message.
FieldsSeen(rm) == rm.fields \cup {"job_oid"}

MissingField(rm) ==
    LET idx == {i \in 1..Len(mustHave) : mustHave[i] \notin FieldsSeen(rm)}
    IN  IF idx = {} THEN "none"
        ELSE mustHave[CHOOSE i \in idx : \A k \in idx : i <= k]

\* lib.parseUrl(msg, workDir, key): "ok", or the text of what it throws.
parseUrl(rm, key) ==
    IF (key \o "_file") \notin FieldsSeen(rm) THEN "lacking the property"
    ELSE IF key \in rm.badUrl THEN "TypeError"
    ELSE "ok"

\* What parseUrl derives from the path of a URL: msg[key + '_bucket'] is its
\* first segment, msg[key + '_key'] is what follows the bucket.
\* A path is written as its segments: "/" followed by the segments joined
\* by "/".
\* path.parse(pathname): dir is what precedes the last segment (the root
\* alone when there is nothing else), base is the last segment.
pathParse(u) ==
    [dir |-> IF u = <<>> THEN <<>> ELSE SubSeq(u, 1, Len(u) - 1),
     base |-> IF u = <<>> THEN <<>> ELSE <<u[Len(u)]>>]

\* p.dir.split('/'): "/a/b" gives ["", "a", "b"], the root "/" gives ["", ""].
splitDir(dir) == <<"">> \o (IF dir = <<>> THEN <<"">> ELSE dir)

\* msg[key + '_bucket'] = p.dir.split('/')[1]
BucketOf(u) == splitDir(pathParse(u).dir)[2]

\* p.dir.split('/').splice(2): the directories of the key.
KeyDir(u) ==
    LET parts == splitDir(pathParse(u).dir)
    IN  SubSeq(parts, 3, Len(parts))

\* msg[key + '_key'] = path.format(p), as segments.
KeyOf(u) == KeyDir(u) \o pathParse(u).base

\* path.format(p) with p.dir emptied: since Node 6 it falls back on p.root
\* and the result starts with "/"; older releases return the base alone.
KeySlash(u, modern) == modern /\ KeyDir(u) = <<>>

\* The try block of processMessage: the three parseUrl calls in order.
ParseError(rm) ==
    IF parseUrl(rm, "stl") # "ok" THEN parseUrl(rm, "stl")
    ELSE IF parseUrl(rm, "config") # "ok" THEN parseUrl(rm, "config")
    ELSE parseUrl(rm, "gcode")

\* Variant: the join fulfils as soon as one download has.
JoinResolvedAny(d) == d.stl = "ok" \/ d.config = "ok"

\* Variant: the join stays pending whatever the downloads do.
JoinResolvedNever(d) == FALSE

\* Promise.join of the two downloads fulfils when both have.
JoinResolved(d) == d.stl = "ok" /\ d.config = "ok"

\* ------------------------------------------------------------------ stats

\* The instants the clock goes through, the first one half past an hour.
Clock == 3..(3 + MaxTicks)

\* roundHour: the time with minutes, seconds and milliseconds set to zero.
roundHour(t) == (t \div 2) * 2

\* ObjectIds are told apart by their leading timestamp: the all-zero id of
\* the lifetime document, and for an hour the id made of its seconds.
objectIdTimeZero == 0
objectIdFromTimeStamp(t) == roundHour(t)

StatIds == {objectIdTimeZero} \cup {objectIdFromTimeStamp(t) : t \in Clock}
NoInc == [slicing_succeeded |-> 0, slicing_failed |-> 0,
          slicing_canceled |-> 0, slicing_seconds |-> 0]

\* Slicer run times exec can take, in milliseconds.
Durations == {1000 * s : s \in 1..MaxSliceSeconds}

\* Stats.update({_id: id}, {$inc: inc}, {upsert: true}): the document, made
\* with zero counters if it is not there, gets inc added; a failed update
\* changes nothing.
StatsUpdate(s, id, inc, ok) ==
    IF ok THEN [s EXCEPT ![id] = [f \in DOMAIN inc |-> @[f] + inc[f]]] ELSE s

\* The detached Stats.update calls of one handler: one for the document of
\* the current hour and, where the handler makes it, one for the lifetime
\* document. Each is stored or fails, and a failure is only logged.
RecordStats(inc, lifetimeToo) ==
    \E hok, lok \in BOOLEAN :
        /\ stats' = StatsUpdate(
                        StatsUpdate(stats, objectIdFromTimeStamp(now), inc, hok),
                        objectIdTimeZero, inc, lok /\ lifetimeToo)
        /\ statsLost' = (statsLost \/ ~hok \/ (lifetimeToo /\ ~lok))

\* ------------------------------------------------------------ updateState

KnownStates == {STATE_WAITING, STATE_FAIL, STATE_ERR, STATE_PRE, STATE_RUN,
                STATE_POST, STATE_DONE}

\* `${err.message}`: an Error carries its message, a string has none.
ErrMessage(e) == IF e.isError THEN e.text ELSE "undefined"

\* msg.gcode_file: the upload URL as the message carries it.
gcode_file(j) == UrlPath

\* Variant: the result file is named whatever the state written.
StatusDocNamesFile(j, state, e) ==
    LET st == IF state \in KnownStates THEN state ELSE STATE_ERR
    IN  [status |-> st,
         gcode_file |-> gcode_file(j),
         detail |-> IF state = STATE_ERR THEN ErrMessage(e) ELSE "fixed",
         by |-> j]

\* The $set document updateState builds for (state, err).
StatusDoc(j, state, e) ==
    LET st == IF state \in KnownStates THEN state ELSE STATE_ERR
    IN  [status |-> st,
         gcode_file |-> IF st = STATE_DONE THEN gcode_file(j) ELSE Waiting,
         detail |-> IF state = STATE_ERR THEN ErrMessage(e) ELSE "fixed",
         by |-> j]

\* The document msg.job_oid addresses exists. A message that came without
\* job_oid was given a fresh ObjectId at line 365, which addresses nothing.
RecordPresent(j) ==
    "job_oid" \in raw[jmsg[j]].fields /\ recExists[jmsg[j]]

\* Variant: a write that fails rejects as well.
UpdateOutcomeStrict(j, dbok) ==
    IF dbok /\ RecordPresent(j) THEN "resolved" ELSE "CANCELED"

\* How the promise updateState returns settles. dbok: the update reached the
\* store and came back; otherwise it failed and the failure is swallowed.
UpdateOutcome(j, dbok) ==
    IF dbok /\ ~RecordPresent(j) THEN "CANCELED" ELSE "resolved"

\* The effect of one updateState call on the store (and on the history).
updateState(j, state, e, dbok) ==
    /\ dbok \/ dbFailures < MaxDbFailures
    /\ dbFailures' = dbFailures + (IF dbok THEN 0 ELSE 1)
    /\ attempted' = [attempted EXCEPT ![j] = Append(@, state)]
    /\ IF dbok /\ RecordPresent(j)
       THEN /\ doc' = [doc EXCEPT ![jmsg[j]] = StatusDoc(j, state, e)]
            /\ written' = [written EXCEPT ![j] = Append(@, state)]
       ELSE UNCHANGED <<doc, written>>

\* ------------------------------------------------------------------ queue

Visible(m) == ~qDeleted[m] /\ lease[m] = 0

\* A claim hides the message for one lease duration.
Claim(m) == lease' = [lease EXCEPT ![m] = LeaseDuration]

trackMessage(j) == tracked' = tracked \cup {j}

runningProcessesInc(d) == runningProcesses' = runningProcesses + d

\* The in-flight count is given back when a handle leaves the lease set: once
\* per claimed message, and not at all for a handle that was never tracked.
Release(j) ==
    /\ tracked' = tracked \ {j}
    /\ runningProcesses' = runningProcesses - (IF j \in tracked THEN 1 ELSE 0)

removeMessage(j) ==
    /\ qDeleted' = [qDeleted EXCEPT ![jmsg[j]] = TRUE]
    /\ Release(j)
    /\ dispositions' = [dispositions EXCEPT ![j] = @ + 1]
    /\ held' = [held EXCEPT ![j] = 0]
    /\ UNCHANGED lease

requeueMessage(j) ==
    /\ lease' = [lease EXCEPT ![jmsg[j]] = 0]
    /\ Release(j)
    /\ dispositions' = [dispositions EXCEPT ![j] = @ + 1]
    /\ held' = [held EXCEPT ![j] = 0]
    /\ UNCHANGED qDeleted

\* ------------------------------------------------------ lib.removeFiles

\* Local paths a caller can name.
Paths == {"stl_local", "config_local", "gcode_local"}

\* The 'files' argument: nothing, a single path string, an array of zero or
\* more paths, or some other object.
RfArgs ==
    {[shape |-> "none", list |-> <<>>], [shape |-> "other", list |-> <<>>]}
    \cup {[shape |-> "string", list |-> <<p>>] : p \in Paths}
    \cup {[shape |-> "array", list |-> s] :
             s \in UNION {[1..n -> Paths] : n \in 0..MaxFiles}}

\* No call of removeFiles is being looked at.
RfIdle == [phase |-> "unused", arg |-> [shape |-> "none", list |-> <<>>],
           disk |-> {}, pending |-> {}, tried |-> {}, result |-> "none"]

\* --------------------------------------------------------- lib.parseUrl

Segments == {"bucket", "prints", "job.gcode"}

\* What msg[key + '_file'] can be: absent, not a string, a string with no
\* path in it, or a URL whose path is some segments.
PuInputs ==
    {[kind |-> k, path |-> <<>>] : k \in {"absent", "notString", "noPath"}}
    \cup {[kind |-> "url", path |-> s] :
             s \in UNION {[1..n -> Segments] : n \in 0..MaxSegments}}

NoKey == [slash |-> FALSE, segs |-> <<>>]

\* No call of parseUrl is being looked at.
PuIdle == [phase |-> "unused", input |-> [kind |-> "absent", path |-> <<>>],
           modern |-> FALSE, thrown |-> FALSE, bucket |-> "", key |-> NoKey]

\* -------------------------------------------------------------------- Init

InitRest ==
    /\ qDeleted = [m \in Msgs |-> FALSE]
    /\ lease = [m \in Msgs |-> 0]
    /\ tracked = {}
    /\ runningProcesses = 0
    /\ deliveries = [m \in Msgs |-> 0]
    /\ held = [j \in Jobs |-> 0]
    /\ dbFailures = 0
    /\ recExists = [m \in Msgs |-> TRUE]
    /\ doc = [m \in Msgs |-> NoDoc]
    /\ pc = [j \in Jobs |-> "idle"]
    /\ jmsg = [j \in Jobs |-> NoMsg]
    /\ dl = [j \in Jobs |-> [stl |-> "none", config |-> "none"]]
    /\ files = [j \in Jobs |-> {}]
    /\ unlinks = [j \in Jobs |-> {}]
    /\ pendingWrite = [j \in Jobs |-> NoWrite]
    /\ err = [j \in Jobs |-> NoErr]
    /\ jobsSucceeded = 0
    /\ jobsFailed = 0
    /\ jobsFailedSlicing = 0
    /\ jobsCanceled = 0
    /\ ev = [j \in Jobs |-> {}]
    /\ attempted = [j \in Jobs |-> <<>>]
    /\ written = [j \in Jobs |-> <<>>]
    /\ lastRenewed = {}
    /\ nCanceled = 0
    /\ nSlicerFailed = 0
    /\ nTransient = 0
    /\ nDone = 0
    /\ dispositions = [j \in Jobs |-> 0]
    /\ now = 3
    /\ stats = [id \in StatIds |-> NoInc]
    /\ statsLost = FALSE
    /\ slicing_time = [j \in Jobs |-> 0]
    /\ totalSlicingTime = 0
    /\ nSliced = 0

Init ==
    /\ raw \in [Msgs -> RawMessages]
    /\ InitRest
    /\ rf = RfIdle
    /\ pu = PuIdle

When(cond, event) == IF cond THEN {event} ELSE {}
Goto(j, where) == pc' = [pc EXCEPT ![j] = where]
Record(j, events) == ev' = [ev EXCEPT ![j] = @ \cup events]
Reject(j, text) == err' = [err EXCEPT ![j] = [isError |-> TRUE, text |-> text]]

\* ----------------------------------------------------------- processMessage

\* Nothing of job j is in flight any more: its message copy is dropped.
Quiescent(j) ==
    /\ pc[j] = "finished"
    /\ unlinks[j] = {}
    /\ pendingWrite[j] = NoWrite
    /\ dl[j].stl # "run" /\ dl[j].config # "run"

\* Job j has ended and file operations of its own are still in flight. They
\* touch nothing another job reads, so a delivery is taken after them.
Settling(j) ==
    /\ pc[j] = "finished"
    /\ unlinks[j] # {} \/ dl[j].stl = "run" \/ dl[j].config = "run"

\* Variant: the message is counted but its handle is not kept.
AcceptUntracked(j) ==
    /\ runningProcessesInc(1)
    /\ UNCHANGED tracked

\* Variant: the message is counted twice.
AcceptCountedTwice(j) ==
    /\ trackMessage(j)
    /\ runningProcessesInc(2)

\* The message passed validation: it is put in our care and counted as a
\* running process.
Accept(j) ==
    /\ trackMessage(j)
    /\ runningProcessesInc(1)

\* Variant: the message is tracked and counted before it is validated.
RefuseAfterAccepting(j) == Accept(j)

\* The message failed validation: processMessage returns before it reaches
\* queue.trackMessage and queue.runningProcessesInc.
Refuse(j) == UNCHANGED <<tracked, runningProcesses>>

\* The queue hands message m to the callback as job j. Everything up to the
\* first suspension runs here: validation, URL parsing, tracking, and the
\* call that starts downloadFiles.
processMessage(j, m) ==
    /\ pc[j] = "idle"
    /\ \A k \in Jobs : (k < j => pc[k] # "idle") /\ ~Quiescent(k) /\ ~Settling(k)
    /\ Visible(m)
    /\ deliveries[m] < MaxDeliveries
    /\ deliveries' = [deliveries EXCEPT ![m] = @ + 1]
    /\ Claim(m)
    /\ jmsg' = [jmsg EXCEPT ![j] = m]
    /\ IF MissingField(raw[m]) # "none"
       THEN /\ err' = [err EXCEPT ![j] = [isError |-> FALSE, text |-> "missing the required parameter"]]
            /\ Goto(j, "val_write")
            /\ Record(j, {"invalid"})
            /\ Refuse(j)
       ELSE IF ParseError(raw[m]) # "ok"
       THEN /\ err' = [err EXCEPT ![j] = [isError |-> FALSE, text |-> "cannot parse URL"]]
            /\ Goto(j, "val_write")
            /\ Record(j, {"invalid"})
            /\ Refuse(j)
       ELSE /\ Accept(j)
            /\ Goto(j, "pre_write")
            /\ Record(j, {"tracked"})
            /\ UNCHANGED err
    /\ UNCHANGED <<raw, qDeleted, held, dbFailures, recExists, doc, dl, files,
                       unlinks, pendingWrite, jobsSucceeded, jobsFailed,
                       jobsFailedSlicing, jobsCanceled, attempted, written,
                       lastRenewed, nCanceled, nSlicerFailed, nTransient, nDone,
                       dispositions, now, stats, statsLost, slicing_time,
                       totalSlicingTime, nSliced, rf, pu>>

\* The rejection branch of validation: updateState(msg, STATE_ERR, text)
\*   .then(queue.removeMessage).catch(log).
ValidationWrite(j, dbok) ==
    /\ pc[j] = "val_write"
    /\ updateState(j, STATE_ERR, err[j], dbok)
    /\ IF UpdateOutcome(j, dbok) = "resolved"
       THEN /\ removeMessage(j)
            /\ Record(j, {"removed"})
       ELSE /\ UNCHANGED queueVars
            /\ Record(j, {"write_canceled"})
    /\ Goto(j, "finished")
    /\ UNCHANGED <<raw, deliveries, recExists, jmsg, dl, files, unlinks,
                       pendingWrite, err, jobsSucceeded, jobsFailed,
                       jobsFailedSlicing, jobsCanceled, lastRenewed, nCanceled,
                       nSlicerFailed, nTransient, nDone, now, stats, statsLost,
                       slicing_time, totalSlicingTime, nSliced, rf, pu>>

\* ------------------------------------------------------------ downloadFiles

\* An awaited updateState call found no record: the chain rejects.
Canceled(j) ==
    /\ Reject(j, "CANCELED")
    /\ Goto(j, "catch")
    /\ nCanceled' = nCanceled + 1

\* updateState(msg, STATE_PRE) settles; on success both downloads start.
downloadFiles(j, dbok) ==
    /\ pc[j] = "pre_write"
    /\ updateState(j, STATE_PRE, NoErr, dbok)
    /\ IF UpdateOutcome(j, dbok) = "resolved"
       THEN /\ dl' = [dl EXCEPT ![j] = [stl |-> "run", config |-> "run"]]
            /\ Goto(j, "downloading")
            /\ UNCHANGED <<err, nCanceled>>
       ELSE /\ Canceled(j)
            /\ UNCHANGED dl
    /\ UNCHANGED <<raw, qDeleted, lease, deliveries, tracked, runningProcesses,
                       held, recExists, jmsg, files, unlinks, pendingWrite,
                       jobsSucceeded, jobsFailed, jobsFailedSlicing,
                       jobsCanceled, ev, lastRenewed, nSlicerFailed, nTransient,
                       nDone, dispositions, now, stats, statsLost, slicing_time,
                       totalSlicingTime, nSliced, rf, pu>>

\* s3.downloadObject for resource r settles. The join rejects with the first
\* failure and leaves the other download running; it fulfils once both have.
DownloadSettles(j, r, ok) ==
    /\ dl[j][r] = "run"
    /\ LET d == [dl[j] EXCEPT ![r] = IF ok THEN "ok" ELSE "fail"]
       IN  /\ dl' = [dl EXCEPT ![j] = d]
           /\ files' = [files EXCEPT ![j] = IF ok THEN @ \cup {r} ELSE @]
           /\ IF pc[j] # "downloading"
              THEN UNCHANGED <<pc, err, ev, nTransient>>
              ELSE IF ~ok
              THEN /\ Reject(j, "download failed")
                   /\ Goto(j, "catch")
                   /\ Record(j, {"download_failed"})
                   /\ nTransient' = nTransient + 1
              ELSE IF JoinResolved(d)
              THEN /\ Goto(j, "run_write")
                   /\ Record(j, {"downloaded"})
                   /\ UNCHANGED <<err, nTransient>>
              ELSE UNCHANGED <<pc, err, ev, nTransient>>
    /\ UNCHANGED <<raw, qDeleted, lease, deliveries, tracked, runningProcesses,
                       held, dbFailures, recExists, doc, jmsg, unlinks,
                       pendingWrite, jobsSucceeded, jobsFailed,
                       jobsFailedSlicing, jobsCanceled, attempted, written,
                       lastRenewed, nCanceled, nSlicerFailed, nDone,
                       dispositions, now, stats, statsLost, slicing_time,
                       totalSlicingTime, nSliced, rf, pu>>

\* -------------------------------------------------------------- spawnSlicer

\* updateState(msg, STATE_RUN) settles; on success the slicer is started.
spawnSlicer(j, dbok) ==
    /\ pc[j] = "run_write"
    /\ updateState(j, STATE_RUN, NoErr, dbok)
    /\ IF UpdateOutcome(j, dbok) = "resolved"
       THEN /\ Goto(j, "slicing")
            /\ Record(j, {"slicer_started"})
            /\ UNCHANGED <<err, nCanceled>>
       ELSE /\ Canceled(j)
            /\ UNCHANGED ev
    /\ UNCHANGED <<raw, qDeleted, lease, deliveries, tracked, runningProcesses,
                       held, recExists, jmsg, dl, files, unlinks, pendingWrite,
                       jobsSucceeded, jobsFailed, jobsFailedSlicing,
                       jobsCanceled, lastRenewed, nSlicerFailed, nTransient,
                       nDone, dispositions, now, stats, statsLost, slicing_time,
                       totalSlicingTime, nSliced, rf, pu>>

\* Variant: the elapsed milliseconds are added to the cumulative slicing
\* time without the conversion to seconds.
SlicerExitsAddsMillis(j, zero) ==
    /\ pc[j] = "slicing"
    /\ IF zero
       THEN /\ files' = [files EXCEPT ![j] = @ \cup {"gcode"}]
            /\ \E ms \in Durations :
                   /\ slicing_time' = [slicing_time EXCEPT ![j] = ms]
                   /\ totalSlicingTime' = totalSlicingTime + ms
            /\ nSliced' = nSliced + 1
            /\ Goto(j, "post_write")
            /\ Record(j, {"slicer_ok"})
            /\ UNCHANGED <<err, nSlicerFailed>>
       ELSE /\ Reject(j, "SLICER")
            /\ Goto(j, "catch")
            /\ Record(j, {"slicer_failed"})
            /\ nSlicerFailed' = nSlicerFailed + 1
            /\ UNCHANGED <<files, slicing_time, totalSlicingTime, nSliced>>
    /\ UNCHANGED <<raw, qDeleted, lease, deliveries, tracked, runningProcesses,
                       held, dbFailures, recExists, doc, jmsg, dl, unlinks,
                       pendingWrite, jobsSucceeded, jobsFailed,
                       jobsFailedSlicing, jobsCanceled, attempted, written,
                       lastRenewed, nCanceled, nTransient, nDone, dispositions,
                       now, stats, statsLost, rf, pu>>

\* exec(cmd) settles: exit code zero fulfils, anything else rejects and is
\* turned into Error('SLICER'). On exit code zero the elapsed time is stored
\* in the message and, in seconds, added to the cumulative slicing time.
SlicerExits(j, zero) ==
    /\ pc[j] = "slicing"
    /\ IF zero
       THEN /\ files' = [files EXCEPT ![j] = @ \cup {"gcode"}]
            /\ \E ms \in Durations :
                   /\ slicing_time' = [slicing_time EXCEPT ![j] = ms]
                   /\ totalSlicingTime' = totalSlicingTime + (ms \div 1000)
            /\ nSliced' = nSliced + 1
            /\ Goto(j, "post_write")
            /\ Record(j, {"slicer_ok"})
            /\ UNCHANGED <<err, nSlicerFailed>>
       ELSE /\ Reject(j, "SLICER")
            /\ Goto(j, "catch")
            /\ Record(j, {"slicer_failed"})
            /\ nSlicerFailed' = nSlicerFailed + 1
            /\ UNCHANGED <<files, slicing_time, totalSlicingTime, nSliced>>
    /\ UNCHANGED <<raw, qDeleted, lease, deliveries, tracked, runningProcesses,
                       held, dbFailures, recExists, doc, jmsg, dl, unlinks,
                       pendingWrite, jobsSucceeded, jobsFailed,
                       jobsFailedSlicing, jobsCanceled, attempted, written,
                       lastRenewed, nCanceled, nTransient, nDone, dispositions,
                       now, stats, statsLost, rf, pu>>

\* --------------------------------------------------------------- uploadFile

\* Variant: uploadFile reports STATE_RUN again instead of STATE_POST.
uploadFileRunAgain(j, dbok) ==
    /\ pc[j] = "post_write"
    /\ updateState(j, STATE_RUN, NoErr, dbok)
    /\ IF UpdateOutcome(j, dbok) = "resolved"
       THEN /\ Goto(j, "uploading")
            /\ Record(j, {"upload_started"})
            /\ UNCHANGED <<err, nCanceled>>
       ELSE /\ Canceled(j)
            /\ UNCHANGED ev
    /\ UNCHANGED <<raw, qDeleted, lease, deliveries, tracked, runningProcesses,
                       held, recExists, jmsg, dl, files, unlinks, pendingWrite,
                       jobsSucceeded, jobsFailed, jobsFailedSlicing,
                       jobsCanceled, lastRenewed, nSlicerFailed, nTransient,
                       nDone, dispositions, now, stats, statsLost, slicing_time,
                       totalSlicingTime, nSliced, rf, pu>>

\* updateState(msg, STATE_POST) settles; on success the upload starts.
uploadFile(j, dbok) ==
    /\ pc[j] = "post_write"
    /\ updateState(j, STATE_POST, NoErr, dbok)
    /\ IF UpdateOutcome(j, dbok) = "resolved"
       THEN /\ Goto(j, "uploading")
            /\ Record(j, {"upload_started"})
            /\ UNCHANGED <<err, nCanceled>>
       ELSE /\ Canceled(j)
            /\ UNCHANGED ev
    /\ UNCHANGED <<raw, qDeleted, lease, deliveries, tracked, runningProcesses,
                       held, recExists, jmsg, dl, files, unlinks, pendingWrite,
                       jobsSucceeded, jobsFailed, jobsFailedSlicing,
                       jobsCanceled, lastRenewed, nSlicerFailed, nTransient,
                       nDone, dispositions, now, stats, statsLost, slicing_time,
                       totalSlicingTime, nSliced, rf, pu>>

\* s3.uploadFile settles.
UploadSettles(j, ok) ==
    /\ pc[j] = "uploading"
    /\ IF ok
       THEN /\ Goto(j, "done_write")
            /\ Record(j, {"uploaded"})
            /\ UNCHANGED <<err, nTransient>>
       ELSE /\ Reject(j, "upload failed")
            /\ Goto(j, "catch")
            /\ Record(j, {"upload_failed"})
            /\ nTransient' = nTransient + 1
    /\ UNCHANGED <<raw, qDeleted, lease, deliveries, tracked, runningProcesses,
                       held, dbFailures, recExists, doc, jmsg, dl, files,
                       unlinks, pendingWrite, jobsSucceeded, jobsFailed,
                       jobsFailedSlicing, jobsCanceled, attempted, written,
                       lastRenewed, nCanceled, nSlicerFailed, nDone,
                       dispositions, now, stats, statsLost, slicing_time,
                       totalSlicingTime, nSliced, rf, pu>>

\* ------------------------------------------------- notifyDone, cleanFiles

\* lib.removeFiles with the three local paths: one unlink per path is issued
\* at once; the promise it returns is settled by UnlinkSettles.
removeFiles(j) == unlinks' = [unlinks EXCEPT ![j] = Resources]

\* Variant: notifyDone leaves the message to the success handler.
notifyDoneKeepsMessage(j, dbok) ==
    /\ pc[j] = "done_write"
    /\ updateState(j, STATE_DONE, NoErr, dbok)
    /\ IF UpdateOutcome(j, dbok) = "resolved"
       THEN /\ removeFiles(j)
            /\ Goto(j, "cleaning")
            /\ Record(j, {"done"} \cup When(files[j] = {}, "cleaned"))
            /\ nDone' = nDone + 1
            /\ UNCHANGED <<err, nCanceled, queueVars>>
       ELSE /\ Canceled(j)
            /\ UNCHANGED <<queueVars, unlinks, ev, nDone>>
    /\ UNCHANGED <<raw, deliveries, recExists, jmsg, dl, files, pendingWrite,
                       jobsSucceeded, jobsFailed, jobsFailedSlicing,
                       jobsCanceled, lastRenewed, nSlicerFailed, nTransient,
                       now, stats, statsLost, slicing_time, totalSlicingTime,
                       nSliced, rf, pu>>

\* updateState(msg, STATE_DONE) settles; on success notifyDone removes the
\* message and the chain calls cleanFiles, which issues the unlinks.
notifyDone(j, dbok) ==
    /\ pc[j] = "done_write"
    /\ updateState(j, STATE_DONE, NoErr, dbok)
    /\ IF UpdateOutcome(j, dbok) = "resolved"
       THEN /\ removeMessage(j)
            /\ removeFiles(j)
            /\ Goto(j, "cleaning")
            /\ Record(j, {"done", "removed"} \cup When(files[j] = {}, "cleaned"))
            /\ nDone' = nDone + 1
            /\ UNCHANGED <<err, nCanceled>>
       ELSE /\ Canceled(j)
            /\ UNCHANGED <<queueVars, unlinks, ev, nDone>>
    /\ UNCHANGED <<raw, deliveries, recExists, jmsg, dl, files, pendingWrite,
                       jobsSucceeded, jobsFailed, jobsFailedSlicing,
                       jobsCanceled, lastRenewed, nSlicerFailed, nTransient,
                       now, stats, statsLost, slicing_time, totalSlicingTime,
                       nSliced, rf, pu>>

\* The fs.unlink calls of one removeFiles call settle: each file that was
\* there is gone. (The three touch different files and nothing waits for one
\* of them alone, so they are taken as one step.)
UnlinkSettles(j) ==
    /\ unlinks[j] # {}
    /\ unlinks' = [unlinks EXCEPT ![j] = {}]
    /\ files' = [files EXCEPT ![j] = @ \ unlinks[j]]
    /\ IF files[j] \subseteq unlinks[j]
       THEN Record(j, {"cleaned"})
       ELSE UNCHANGED ev
    /\ UNCHANGED <<raw, qDeleted, lease, deliveries, tracked, runningProcesses,
                       held, dbFailures, recExists, doc, pc, jmsg, dl,
                       pendingWrite, err, jobsSucceeded, jobsFailed,
                       jobsFailedSlicing, jobsCanceled, attempted, written,
                       lastRenewed, nCanceled, nSlicerFailed, nTransient, nDone,
                       dispositions, now, stats, statsLost, slicing_time,
                       totalSlicingTime, nSliced, rf, pu>>

\* $inc of the success handler.
SuccessInc(j) ==
    [NoInc EXCEPT !.slicing_succeeded = 1,
                  !.slicing_seconds = slicing_time[j] \div 1000]

\* Variant: the success handler counts the job twice.
SucceededTwice(j) ==
    /\ pc[j] = "cleaning"
    /\ unlinks[j] = {}
    /\ jobsSucceeded' = jobsSucceeded + 2
    /\ RecordStats(SuccessInc(j), TRUE)
    /\ Goto(j, "finished")
    /\ Record(j, {"succeeded"})
    /\ UNCHANGED <<raw, qDeleted, lease, deliveries, tracked, runningProcesses,
                       held, dbFailures, recExists, doc, jmsg, dl, files,
                       unlinks, pendingWrite, err, jobsFailed,
                       jobsFailedSlicing, jobsCanceled, attempted, written,
                       lastRenewed, nCanceled, nSlicerFailed, nTransient, nDone,
                       dispositions, now, slicing_time, totalSlicingTime,
                       nSliced, rf, pu>>

\* cleanFiles has resolved: the success handler of processMessage.
Succeeded(j) ==
    /\ pc[j] = "cleaning"
    /\ unlinks[j] = {}
    /\ jobsSucceeded' = jobsSucceeded + 1
    /\ RecordStats(SuccessInc(j), TRUE)
    /\ Goto(j, "finished")
    /\ Record(j, {"succeeded"})
    /\ UNCHANGED <<raw, qDeleted, lease, deliveries, tracked, runningProcesses,
                       held, dbFailures, recExists, doc, jmsg, dl, files,
                       unlinks, pendingWrite, err, jobsFailed,
                       jobsFailedSlicing, jobsCanceled, attempted, written,
                       lastRenewed, nCanceled, nSlicerFailed, nTransient, nDone,
                       dispositions, now, slicing_time, totalSlicingTime,
                       nSliced, rf, pu>>

\* ------------------------------------------------- processMessage's catch

\* Variant: the ERRORED write is made without the error.
CatchWriteNoText(e) ==
    IF e.text = "CANCELED" THEN NoWrite
    ELSE IF e.text = "SLICER" THEN [state |-> STATE_FAIL, e |-> NoErr]
    ELSE [state |-> STATE_ERR, e |-> NoErr]

\* The detached updateState call the handler makes for this error, if any.
CatchWrite(e) ==
    IF e.text = "CANCELED" THEN NoWrite
    ELSE IF e.text = "SLICER" THEN [state |-> STATE_FAIL, e |-> NoErr]
    ELSE [state |-> STATE_ERR, e |-> e]

\* Variant: a slicer failure is retried like a transport failure.
RequeueUnlessCanceled(e) == e.text # "CANCELED"

\* var requeue: false for a canceled job and for a slicer failure.
Requeue(e) == e.text # "CANCELED" /\ e.text # "SLICER"

\* Variant: the message is disposed of and its handle stays in our care.
DispositionKeepsHandle(j, requeue) ==
    /\ qDeleted' = [qDeleted EXCEPT ![jmsg[j]] = @ \/ ~requeue]
    /\ lease' = [lease EXCEPT ![jmsg[j]] = IF requeue THEN 0 ELSE @]
    /\ runningProcesses' = runningProcesses - 1
    /\ dispositions' = [dispositions EXCEPT ![j] = @ + 1]
    /\ UNCHANGED <<tracked, held>>

\* if (requeue) queue.requeueMessage(msg) else queue.removeMessage(msg)
Disposition(j, requeue) ==
    IF requeue THEN requeueMessage(j) ELSE removeMessage(j)

\* The Stats.update call the catch handler makes for this error, if any.
CatchStats(e) ==
    IF e.text = "CANCELED"
    THEN RecordStats([NoInc EXCEPT !.slicing_canceled = 1], FALSE)
    ELSE IF e.text = "SLICER"
    THEN RecordStats([NoInc EXCEPT !.slicing_failed = 1], FALSE)
    ELSE UNCHANGED <<stats, statsLost>>

Catch(j) ==
    /\ pc[j] = "catch"
    /\ CatchStats(err[j])
    /\ jobsCanceled' = jobsCanceled + (IF err[j].text = "CANCELED" THEN 1 ELSE 0)
    /\ jobsFailedSlicing' = jobsFailedSlicing + (IF err[j].text = "SLICER" THEN 1 ELSE 0)
    /\ jobsFailed' = jobsFailed + (IF Requeue(err[j]) THEN 1 ELSE 0)
    /\ pendingWrite' = [pendingWrite EXCEPT ![j] = CatchWrite(err[j])]
    /\ removeFiles(j)
    /\ Disposition(j, Requeue(err[j]))
    /\ Goto(j, "finished")
    /\ Record(j, {IF err[j].text = "CANCELED" THEN "canceled"
                  ELSE IF err[j].text = "SLICER" THEN "failed_slicing"
                  ELSE "failed",
                  IF Requeue(err[j]) THEN "requeued" ELSE "removed"}
                 \cup When(files[j] = {}, "cleaned"))
    /\ UNCHANGED <<raw, deliveries, dbFailures, recExists, doc, jmsg, dl, files,
                       err, jobsSucceeded, attempted, written, lastRenewed,
                       nCanceled, nSlicerFailed, nTransient, nDone, now,
                       slicing_time, totalSlicingTime, nSliced, rf, pu>>

\* A detached updateState call of the catch handler settles; its outcome,
\* whatever it is, is dropped by .then(null).catch(null).
DetachedWrite(j, dbok) ==
    /\ pendingWrite[j] # NoWrite
    /\ updateState(j, pendingWrite[j].state, pendingWrite[j].e, dbok)
    /\ pendingWrite' = [pendingWrite EXCEPT ![j] = NoWrite]
    /\ Record(j, {IF dbok /\ RecordPresent(j) THEN "detached_stored"
                  ELSE IF dbok THEN "detached_canceled" ELSE "detached_lost"})
    /\ UNCHANGED <<raw, qDeleted, lease, deliveries, tracked, runningProcesses,
                       held, recExists, pc, jmsg, dl, files, unlinks, err,
                       jobsSucceeded, jobsFailed, jobsFailedSlicing,
                       jobsCanceled, lastRenewed, nCanceled, nSlicerFailed,
                       nTransient, nDone, dispositions, now, stats, statsLost,
                       slicing_time, totalSlicingTime, nSliced, rf, pu>>

Retire(j) ==
    /\ Quiescent(j)
    /\ pc' = [pc EXCEPT ![j] = "idle"]
    /\ jmsg' = [jmsg EXCEPT ![j] = NoMsg]
    /\ dl' = [dl EXCEPT ![j] = [stl |-> "none", config |-> "none"]]
    /\ files' = [files EXCEPT ![j] = {}]
    /\ err' = [err EXCEPT ![j] = NoErr]
    /\ ev' = [ev EXCEPT ![j] = {}]
    /\ attempted' = [attempted EXCEPT ![j] = <<>>]
    /\ written' = [written EXCEPT ![j] = <<>>]
    /\ dispositions' = [dispositions EXCEPT ![j] = 0]
    /\ slicing_time' = [slicing_time EXCEPT ![j] = 0]
    /\ UNCHANGED <<raw, qDeleted, lease, deliveries, tracked, runningProcesses,
                       held, dbFailures, recExists, doc, unlinks, pendingWrite,
                       jobsSucceeded, jobsFailed, jobsFailedSlicing,
                       jobsCanceled, lastRenewed, nCanceled, nSlicerFailed,
                       nTransient, nDone, now, stats, statsLost,
                       totalSlicingTime, nSliced, rf, pu>>

\* ------------------------------------------------------------ environment

\* Half an hour goes by.
TimePasses ==
    /\ now + 1 \in Clock
    /\ now' = now + 1
    /\ UNCHANGED <<raw, qDeleted, lease, deliveries, tracked, runningProcesses,
                       held, dbFailures, recExists, doc, pc, jmsg, dl, files,
                       unlinks, pendingWrite, err, jobsSucceeded, jobsFailed,
                       jobsFailedSlicing, jobsCanceled, ev, attempted, written,
                       lastRenewed, nCanceled, nSlicerFailed, nTransient, nDone,
                       dispositions, stats, statsLost, slicing_time,
                       totalSlicingTime, nSliced, rf, pu>>

\* The owner of the print job deletes it.
DeleteRecord(m) ==
    /\ recExists[m]
    /\ recExists' = [recExists EXCEPT ![m] = FALSE]
    /\ UNCHANGED <<raw, qDeleted, lease, deliveries, tracked, runningProcesses,
                       held, dbFailures, doc, pc, jmsg, dl, files, unlinks,
                       pendingWrite, err, jobsSucceeded, jobsFailed,
                       jobsFailedSlicing, jobsCanceled, ev, attempted, written,
                       lastRenewed, nCanceled, nSlicerFailed, nTransient, nDone,
                       dispositions, now, stats, statsLost, slicing_time,
                       totalSlicingTime, nSliced, rf, pu>>

\* queue.renewMessages: a renewal period has gone by, the timer fires and
\* every tracked handle gets a fresh lease. Leases are counted in whole
\* periods, a claim counting from the start of the period it is made in.
renewMessages ==
    /\ lease' = [m \in Msgs |->
                   IF \E j \in tracked : jmsg[j] = m /\ ~qDeleted[m]
                   THEN LeaseDuration
                   ELSE Max(0, lease[m] - RenewPeriod)]
    /\ held' = [j \in Jobs |->
                  IF j \in tracked THEN Min(held[j] + 1, Outlast) ELSE held[j]]
    /\ lastRenewed' = tracked
    /\ UNCHANGED <<raw, qDeleted, deliveries, tracked, runningProcesses,
                       dbFailures, recExists, doc, pc, jmsg, dl, files, unlinks,
                       pendingWrite, err, jobsSucceeded, jobsFailed,
                       jobsFailedSlicing, jobsCanceled, ev, attempted, written,
                       nCanceled, nSlicerFailed, nTransient, nDone,
                       dispositions, now, stats, statsLost, slicing_time,
                       totalSlicingTime, nSliced, rf, pu>>

Next ==
    \/ \E j \in Jobs, m \in Msgs : processMessage(j, m)
    \/ \E j \in Jobs, dbok \in BOOLEAN : ValidationWrite(j, dbok)
    \/ \E j \in Jobs, dbok \in BOOLEAN : downloadFiles(j, dbok)
    \/ \E j \in Jobs, r \in {"stl", "config"}, ok \in BOOLEAN : DownloadSettles(j, r, ok)
    \/ \E j \in Jobs, dbok \in BOOLEAN : spawnSlicer(j, dbok)
    \/ \E j \in Jobs, zero \in BOOLEAN : SlicerExits(j, zero)
    \/ \E j \in Jobs, dbok \in BOOLEAN : uploadFile(j, dbok)
    \/ \E j \in Jobs, ok \in BOOLEAN : UploadSettles(j, ok)
    \/ \E j \in Jobs, dbok \in BOOLEAN : notifyDone(j, dbok)
    \/ \E j \in Jobs : UnlinkSettles(j)
    \/ \E j \in Jobs : Succeeded(j)
    \/ \E j \in Jobs : Catch(j)
    \/ \E j \in Jobs, dbok \in BOOLEAN : DetachedWrite(j, dbok)
    \/ \E j \in Jobs : Retire(j)
    \/ \E m \in Msgs : DeleteRecord(m)
    \/ TimePasses
    \/ renewMessages

Spec == Init /\ [][Next]_vars

\* ---------------------------------------------------------------- fairness

\* A step of the promise chain of job j, or of a call it has issued: each is
\* the callback of an external call (status write, download, slicer process,
\* upload, file deletion) returning with success or failure.
JobStep(j) ==
    \/ \E dbok \in BOOLEAN : downloadFiles(j, dbok)
    \/ \E r \in {"stl", "config"}, ok \in BOOLEAN : DownloadSettles(j, r, ok)
    \/ \E dbok \in BOOLEAN : spawnSlicer(j, dbok)
    \/ \E zero \in BOOLEAN : SlicerExits(j, zero)
    \/ \E dbok \in BOOLEAN : uploadFile(j, dbok)
    \/ \E ok \in BOOLEAN : UploadSettles(j, ok)
    \/ \E dbok \in BOOLEAN : notifyDone(j, dbok)
    \/ UnlinkSettles(j)
    \/ Succeeded(j)
    \/ Catch(j)
    \/ \E dbok \in BOOLEAN : DetachedWrite(j, dbok)

\* The program with every external call returning in the end: the event
\* loop runs a callback that is due, so a chain step that stays possible is
\* taken.
FairSpec == Spec /\ \A j \in Jobs : WF_vars(JobStep(j))

\* ====================================================================
\* lib.removeFiles taken by itself, for every argument it can be given
\* ====================================================================

pipelineVars ==
    <<raw, qDeleted, lease, deliveries, tracked, runningProcesses, held,
      dbFailures, recExists, doc, pc, jmsg, dl, files, unlinks,
      pendingWrite, err, jobsSucceeded, jobsFailed, jobsFailedSlicing,
      jobsCanceled, ev, attempted, written, lastRenewed, nCanceled,
      nSlicerFailed, nTransient, nDone, dispositions, now, stats, statsLost,
      slicing_time, totalSlicingTime, nSliced>>

\* The function is about to be called with argument arg while the files in
\* disk exist.
InitRemoveFiles ==
    /\ raw = [m \in Msgs |-> [fields |-> Fields, badUrl |-> {}]]
    /\ InitRest
    /\ pu = PuIdle
    /\ rf \in {[phase |-> "ready", arg |-> a, disk |-> d, pending |-> {},
                tried |-> {}, result |-> "none"] :
                  a \in RfArgs, d \in SUBSET Paths}

\* What the promise removeFiles returns is once the call has returned: the
\* no-op cases and the invalid argument settle it at once, every other case
\* has issued one unlink per listed file.
RemoveFilesCall ==
    /\ rf.phase = "ready"
    /\ LET a == rf.arg
           n == Len(a.list)
       IN  rf' = [rf EXCEPT
                    !.phase = "called",
                    !.pending = IF a.shape \in {"string", "array"}
                                THEN 1..n ELSE {},
                    !.tried = IF a.shape \in {"string", "array"}
                              THEN 1..n ELSE {},
                    !.result = IF a.shape = "none" THEN "resolved"
                               ELSE IF a.shape = "other" THEN "rejected"
                               ELSE IF n = 0 THEN "resolved"
                               ELSE "pending"]
    /\ UNCHANGED <<pipelineVars, pu>>

\* The promisified fs.unlink of the i-th listed file settles: it fulfils and
\* the file is gone, or it rejects (the file is absent, or cannot be removed).
\*   string:         return unlink(files)
\*   array of one:   unlink(files[0]).then(resolve).catch(resolve)
\*   longer array:   Promise.all(promises).then(resolve).catch(resolve)
RfUnlinkSettles(i, ok) ==
    /\ rf.phase = "called"
    /\ i \in rf.pending
    /\ LET a == rf.arg
           done == ok /\ a.list[i] \in rf.disk
           left == rf.pending \ {i}
       IN  rf' = [rf EXCEPT
                    !.pending = left,
                    !.disk = IF done THEN @ \ {a.list[i]} ELSE @,
                    !.result =
                        IF @ # "pending" THEN @
                        ELSE IF a.shape = "string"
                             THEN (IF done THEN "resolved" ELSE "rejected")
                        ELSE IF ~done THEN "resolved"
                        ELSE IF left = {} THEN "resolved"
                        ELSE "pending"]
    /\ UNCHANGED <<pipelineVars, pu>>

NextRemoveFiles ==
    \/ RemoveFilesCall
    \/ \E i \in 1..MaxFiles, ok \in BOOLEAN : RfUnlinkSettles(i, ok)

SpecRemoveFiles == InitRemoveFiles /\ [][NextRemoveFiles]_vars

\* ====================================================================
\* lib.parseUrl taken by itself, for every value the URL field can have
\* ====================================================================

\* parseUrl is about to be called on a message whose URL field is input, on
\* a Node release with the newer path.format or with the older one.
InitParseUrl ==
    /\ raw = [m \in Msgs |-> [fields |-> Fields, badUrl |-> {}]]
    /\ InitRest
    /\ rf = RfIdle
    /\ pu \in {[PuIdle EXCEPT !.phase = "ready", !.input = i, !.modern = v] :
                  i \in PuInputs, v \in BOOLEAN}

\* The call returns or throws. It throws when the field is absent (the
\* explicit check), is not a string (URL.parse) or has no path (path.parse
\* of null); any path at all is taken apart without a check.
ParseUrlCall ==
    /\ pu.phase = "ready"
    /\ LET u == pu.input.path
       IN  pu' = IF pu.input.kind # "url"
                 THEN [pu EXCEPT !.phase = "done", !.thrown = TRUE]
                 ELSE [pu EXCEPT
                         !.phase = "done",
                         !.bucket = BucketOf(u),
                         !.key = [slash |-> KeySlash(u, pu.modern),
                                  segs |-> KeyOf(u)]]
    /\ UNCHANGED <<pipelineVars, rf>>

NextParseUrl == ParseUrlCall

SpecParseUrl == InitParseUrl /\ [][NextParseUrl]_vars

\* ====================================================================
\* Properties
\* ====================================================================

Ended(j) == pc[j] = "finished"
Disposed(j) == "removed" \in ev[j] \/ "requeued" \in ev[j]
Elems(q) == {q[i] : i \in 1..Len(q)}
Increasing(q) == \A a, b \in 1..Len(q) : a < b => q[a] < q[b]
InCatch(text) == Cardinality({j \in Jobs : pc[j] = "catch" /\ err[j].text = text})
InCatchOther == Cardinality({j \in Jobs : pc[j] = "catch" /\ Requeue(err[j])})
StagesOk(j) == {"downloaded", "slicer_ok", "uploaded"} \subseteq ev[j]
DoneSettled(j) == pc[j] \in {"cleaning", "catch", "finished"}

\* C1: within one job the slicer is started only once both downloads have
\* fulfilled, the upload only once the slicer has exited with code zero, and
\* the DONE write and the success-path removal only once the upload has
\* fulfilled.
C1_StagesSequential ==
    \A j \in Jobs :
        /\ "slicer_started" \in ev[j] => dl[j].stl = "ok" /\ dl[j].config = "ok"
        /\ "upload_started" \in ev[j] => "slicer_ok" \in ev[j]
        /\ STATE_DONE \in Elems(attempted[j]) => "uploaded" \in ev[j]
        /\ "done" \in ev[j] => "uploaded" \in ev[j]

C1_Witness == \E j \in Jobs : "succeeded" \in ev[j] /\ "removed" \in ev[j]

\* C2 as claimed: once the downloads, the slicer run and the upload of a job
\* have all succeeded and its DONE write has settled, the states written to
\* the status document by that processing are exactly PREPARING, RUNNING,
\* POSTPROCESSING, DONE.
C2_AsClaimed ==
    \A j \in Jobs :
        StagesOk(j) /\ DoneSettled(j) =>
            written[j] = <<STATE_PRE, STATE_RUN, STATE_POST, STATE_DONE>>

\* C2 amended: for such a job the status writes issued are exactly
\* PREPARING, RUNNING, POSTPROCESSING, DONE in that order; the states stored
\* in the document are those of them whose write neither failed nor found the
\* record missing, in the same order and none repeated; they are all four
\* when the job ends in success with no write lost.
C2_StatusOrder ==
    \A j \in Jobs :
        StagesOk(j) /\ DoneSettled(j) =>
            /\ attempted[j] = <<STATE_PRE, STATE_RUN, STATE_POST, STATE_DONE>>
            /\ Elems(written[j]) \subseteq Elems(attempted[j])
            /\ Increasing(written[j])
            /\ ("succeeded" \in ev[j] /\ dbFailures = 0 =>
                    written[j] = attempted[j])

C2_Witness ==
    \E j \in Jobs :
        /\ "succeeded" \in ev[j]
        /\ written[j] = <<STATE_PRE, STATE_RUN, STATE_POST, STATE_DONE>>
        /\ doc[jmsg[j]].status = STATE_DONE

LastAttempt(j) == attempted[j][Len(attempted[j])]
FoundMissing(j) ==
    \/ err[j].text = "CANCELED"
    \/ "write_canceled" \in ev[j]
    \/ "detached_canceled" \in ev[j]
Transient(j) == "download_failed" \in ev[j] \/ "upload_failed" \in ev[j]
OnlyDelivery(j) == \A k \in Jobs \ {j} : jmsg[k] # jmsg[j]
Complete(j) == raw[jmsg[j]].fields = Fields

\* C3 as claimed: a job one of whose status writes found the print-job record
\* missing ends as a canceled job: its message is removed from the queue and
\* never requeued, and it is counted as canceled.
C3_AsClaimed ==
    \A j \in Jobs :
        Ended(j) /\ FoundMissing(j) /\ pendingWrite[j] = NoWrite =>
            /\ "removed" \in ev[j]
            /\ "requeued" \notin ev[j]
            /\ "canceled" \in ev[j]

\* C4 as claimed: once a job whose slicer exited abnormally has ended and its
\* FAILED write has settled, the status document holds FAILED, the message is
\* removed and the failed-slicing counter has counted the job.
C4_AsClaimed ==
    \A j \in Jobs :
        "slicer_failed" \in ev[j] /\ Ended(j) /\ pendingWrite[j] = NoWrite
        /\ OnlyDelivery(j) /\ Complete(j) =>
            /\ doc[jmsg[j]].status = STATE_FAIL
            /\ "removed" \in ev[j]
            /\ "failed_slicing" \in ev[j]

\* C4 amended: a job whose slicer exited abnormally ends with its message
\* removed from the queue and never requeued, is counted exactly once as
\* failed slicing, and issues a FAILED write as its last status write; the
\* document holds FAILED when that write was stored and no other job's write
\* landed after it.
C4_SlicerFailure ==
    /\ jobsFailedSlicing + InCatch("SLICER") = nSlicerFailed
    /\ \A j \in Jobs :
        "slicer_failed" \in ev[j] /\ Ended(j) =>
            /\ "removed" \in ev[j] /\ "requeued" \notin ev[j]
            /\ qDeleted[jmsg[j]] /\ j \notin tracked
            /\ "failed_slicing" \in ev[j]
            /\ IF pendingWrite[j] # NoWrite
               THEN pendingWrite[j].state = STATE_FAIL
               ELSE LastAttempt(j) = STATE_FAIL
            /\ ("detached_stored" \in ev[j] /\ doc[jmsg[j]].by = j =>
                    doc[jmsg[j]].status = STATE_FAIL)

C4_Witness ==
    \E j \in Jobs :
        /\ "slicer_failed" \in ev[j] /\ Ended(j)
        /\ "detached_stored" \in ev[j]
        /\ doc[jmsg[j]].status = STATE_FAIL
        /\ qDeleted[jmsg[j]]
        /\ jobsFailedSlicing = 1

C5_Ended ==
    /\ jobsFailed + InCatchOther = nTransient
    /\ \A j \in Jobs :
        Transient(j) /\ Ended(j) =>
            /\ "requeued" \in ev[j] /\ "removed" \notin ev[j]
            /\ j \notin tracked
            /\ "failed" \in ev[j]
            /\ IF pendingWrite[j] # NoWrite
               THEN pendingWrite[j] = [state |-> STATE_ERR, e |-> err[j]]
               ELSE LastAttempt(j) = STATE_ERR
            /\ ("detached_stored" \in ev[j] /\ doc[jmsg[j]].by = j =>
                    /\ doc[jmsg[j]].status = STATE_ERR
                    /\ doc[jmsg[j]].detail = err[j].text)
            /\ ("upload_failed" \in ev[j] /\ unlinks[j] = {} => files[j] = {})

C5_Requeued ==
    \A j \in Jobs :
        pc[j] = "catch" /\ Requeue(err[j]) /\ pc'[j] = "finished" =>
            /\ unlinks'[j] = Resources
            /\ Visible(jmsg[j])'

NoTransfer(j) ==
    /\ dl[j] = [stl |-> "none", config |-> "none"]
    /\ "slicer_started" \notin ev[j]
    /\ "upload_started" \notin ev[j]

\* C6 as claimed: a job whose message lacks one of the six required fields
\* starts no download, no slicer run and no upload, and once it has ended its
\* message is removed from the queue and was never requeued, whatever the
\* outcome of the ERRORED write.
C6_AsClaimed ==
    \A j \in Jobs :
        jmsg[j] # NoMsg /\ raw[jmsg[j]].fields # Fields =>
            /\ NoTransfer(j)
            /\ Ended(j) => qDeleted[jmsg[j]] /\ "requeued" \notin ev[j]

\* C7 as claimed: a job whose message carries a resource URL that cannot be
\* parsed attempts an ERRORED write and no other, starts no download, no
\* slicer run and no upload, and once it has ended its message is removed
\* from the queue and was never requeued.
C7_AsClaimed ==
    \A j \in Jobs :
        jmsg[j] # NoMsg /\ raw[jmsg[j]].badUrl # {} =>
            /\ NoTransfer(j)
            /\ Ended(j) =>
                /\ attempted[j] = <<STATE_ERR>>
                /\ qDeleted[jmsg[j]] /\ "requeued" \notin ev[j]

Processing(j) == pc[j] \notin {"idle", "val_write", "cleaning", "finished"}

\* C8: while a job is being processed, from the tracking of its message to
\* the removal or requeue, the message stays invisible in the queue and no
\* other job is processing the same message, however many renewal periods the
\* processing takes.
C8_AtMostOne ==
    \A j \in Jobs :
        Processing(j) =>
            /\ ~Visible(jmsg[j]) /\ lease[jmsg[j]] > 0
            /\ \A k \in Jobs \ {j} :
                   jmsg[k] = jmsg[j] => Ended(k) /\ k \notin tracked

C8_Witness ==
    \E j \in Jobs :
        /\ Processing(j)
        /\ held[j] * RenewPeriod >= LeaseDuration
        /\ deliveries[jmsg[j]] = 1
        /\ lease[jmsg[j]] > 0

InState(where) == Cardinality({j \in Jobs : pc[j] = where})

FailedWrite(j) ==
    /\ dbFailures' = dbFailures + 1
    /\ Len(attempted'[j]) = Len(attempted[j]) + 1
    /\ pc[j] # "finished"

NextStage(where) ==
    CASE where = "pre_write" -> "downloading"
      [] where = "run_write" -> "slicing"
      [] where = "post_write" -> "uploading"
      [] where = "done_write" -> "cleaning"
      [] where = "val_write" -> "finished"

C13_Step ==
    \A j \in Jobs :
        FailedWrite(j) =>
            /\ pc'[j] = NextStage(pc[j])
            /\ err'[j] = err[j]
            /\ written'[j] = written[j]
            /\ pc[j] \in {"done_write", "val_write"} =>
                   qDeleted'[jmsg[j]] /\ "removed" \in ev'[j]

C13_Done ==
    \A j \in Jobs :
        "done" \in ev[j] =>
            /\ "removed" \in ev[j] /\ qDeleted[jmsg[j]]
            /\ pc[j] = "cleaning" \/ "succeeded" \in ev[j]

\* C13: a status write that fails for a reason other than a missing record
\* stores nothing and leaves the course of the job as it is: the chain goes
\* on to the stage a stored write leads to; after a failed DONE write the
\* message is removed and the job goes on to be counted as succeeded.
C13_FailedWriteSwallowed == []C13_Done /\ [][C13_Step]_vars

C13_Witness ==
    \E j \in Jobs :
        /\ "succeeded" \in ev[j]
        /\ LastAttempt(j) = STATE_DONE
        /\ STATE_DONE \notin Elems(written[j])
        /\ qDeleted[jmsg[j]]
        /\ jobsSucceeded = 1

\* C14: a tracked job has called neither removeMessage nor requeueMessage
\* while it is being processed, and exactly one of them, exactly once, from
\* the moment its outcome is handled, whatever the outcome.
C14_OneDisposition ==
    \A j \in Jobs :
        "tracked" \in ev[j] =>
            /\ Processing(j) => dispositions[j] = 0 /\ ~Disposed(j)
            /\ ~Processing(j) =>
                   /\ dispositions[j] = 1
                   /\ ("removed" \in ev[j]) # ("requeued" \in ev[j])

C14_Witness ==
    \E j \in Jobs :
        /\ "tracked" \in ev[j] /\ Ended(j)
        /\ err[j].text = "CANCELED" /\ LastAttempt(j) = STATE_DONE
        /\ dispositions[j] = 1 /\ "removed" \in ev[j]

\* The step is job j being refused by validation or its ERRORED write
\* settling.
ValidationStep(j) ==
    \/ pc[j] = "idle" /\ pc'[j] = "val_write"
    \/ pc[j] = "val_write" /\ pc'[j] = "finished"

C15_Untracked ==
    \A j \in Jobs :
        "invalid" \in ev[j] =>
            /\ j \notin tracked
            /\ "tracked" \notin ev[j]
            /\ NoTransfer(j)

C15_Step ==
    \A j \in Jobs :
        ValidationStep(j) =>
            /\ runningProcesses' = runningProcesses
            /\ tracked' = tracked

C16_AsClaimed ==
    \A m \in Msgs :
        doc[m].gcode_file =
            IF doc[m].status = STATE_DONE THEN KeyOf(UrlPath) ELSE Waiting

C16_Field ==
    /\ \A m \in Msgs :
           doc[m].gcode_file =
               IF doc[m].status = STATE_DONE THEN UrlPath ELSE Waiting
    /\ \A j \in Jobs, s \in (KnownStates \cup {5}) :
           (StatusDoc(j, s, NoErr).gcode_file # Waiting) <=> (s = STATE_DONE)

C16_Write ==
    \A m \in Msgs :
        doc'[m] # doc[m] /\ doc'[m].gcode_file # Waiting =>
            \E j \in Jobs :
                /\ jmsg[j] = m /\ doc'[m].by = j
                /\ pc[j] = "done_write" /\ "uploaded" \in ev[j]
                /\ doc'[m].gcode_file = gcode_file(j)

\* C16 amended: after every status write the gcode_file field holds the
\* gcode_file value of the message, the URL the key was derived from and not
\* the key, if and only if the state written is DONE, and the waiting
\* placeholder for every other state, unknown states included; a value other
\* than the placeholder is written only by a job whose upload has completed.
C16_GcodeFile == []C16_Field /\ [][C16_Write]_vars

C16_Witness ==
    \E m \in Msgs :
        /\ doc[m].status = STATE_DONE
        /\ doc[m].gcode_file = UrlPath
        /\ doc[m].gcode_file # KeyOf(UrlPath)
        /\ \E j \in Jobs : jmsg[j] = m /\ "uploaded" \in ev[j]

ErrorTexts == {"missing the required parameter", "cannot parse URL",
               "download failed", "upload failed"}

\* C17 as claimed: a status document in state ERRORED carries in its detail
\* the text of the error it was written for: the missing parameter, the
\* parse error, or the message of the operation that failed.
C17_AsClaimed ==
    \A m \in Msgs :
        doc[m].status = STATE_ERR => doc[m].detail \in ErrorTexts

\* C18 as claimed: when the promise processMessage returned for a tracked job
\* has settled, the deletion of its three local files has been issued and
\* has completed.
C18_AsClaimed ==
    \A j \in Jobs :
        "tracked" \in ev[j] /\ Ended(j) =>
            /\ unlinks[j] = {}
            /\ files[j] = {} \/ dl[j].stl = "run" \/ dl[j].config = "run"

\* C19 as claimed: called with a path string, an array of one path or an
\* array of several, removeFiles never rejects, whichever of the files are
\* absent, and has attempted the deletion of every listed file.
C19_AsClaimed ==
    rf.arg.shape \in {"string", "array"} =>
        /\ rf.result # "rejected"
        /\ rf.phase = "called" => rf.tried = 1..Len(rf.arg.list)

HourIds == StatIds \ {objectIdTimeZero}

RECURSIVE SumOver(_, _)
SumOver(ids, f) ==
    IF ids = {} THEN 0
    ELSE LET id == CHOOSE x \in ids : TRUE
         IN  stats[id][f] + SumOver(ids \ {id}, f)

\* C20 as claimed: as long as no stats update has failed, every counter of
\* the lifetime document equals the sum of that counter over the hourly
\* documents, each outcome having been added to both.
C20_AsClaimed ==
    ~statsLost =>
        \A f \in DOMAIN NoInc :
            stats[objectIdTimeZero][f] = SumOver(HourIds, f)

\* C21 as claimed: called on a URL whose path is a bucket followed by a key
\* of one or more segments, parseUrl sets the bucket to the first segment and
\* the key to the rest, so that "/" bucket "/" key is the path again; called
\* on a URL whose path lacks the bucket or the key, it throws.
C21_AsClaimed ==
    pu.phase = "done" /\ pu.input.kind = "url" =>
        IF Len(pu.input.path) >= 2
        THEN /\ ~pu.thrown
             /\ pu.bucket = pu.input.path[1]
             /\ ~pu.key.slash
             /\ <<pu.bucket>> \o pu.key.segs = pu.input.path
        ELSE pu.thrown

\* The slicer of job j exits with code zero in this step.
SlicedNow(j) == pc[j] = "slicing" /\ pc'[j] = "post_write"

\* slicing_seconds of the lifetime Stats document.
PersistedSeconds == stats[objectIdTimeZero].slicing_seconds

\* C23, the steps: the cumulative slicing time grows in the step in which a
\* slicer exits with code zero, by that run's duration in seconds, and in no
\* other step, whatever becomes of the job afterwards.
C23_Step ==
    /\ \A j \in Jobs :
           SlicedNow(j) =>
               totalSlicingTime' = totalSlicingTime + (slicing_time'[j] \div 1000)
    /\ (\A j \in Jobs : ~SlicedNow(j)) => totalSlicingTime' = totalSlicingTime

\* C23, the totals: the persisted lifetime seconds never exceed the
\* cumulative slicing time, which counts at least a second for every slicer
\* run that exited with code zero; the two are equal only when every such run
\* was followed by a successful job.
C23_Totals ==
    /\ nSliced >= jobsSucceeded
    /\ totalSlicingTime >= nSliced
    /\ PersistedSeconds <= totalSlicingTime
    /\ (PersistedSeconds = totalSlicingTime => nSliced = jobsSucceeded)

Attempting(j) == "tracked" \in ev[j] /\ ~Ended(j)

\* C22, the lease set: a handle is in it only while its attempt has not
\* ended, and an attempt that has ended, its promise resolved, has had its
\* message removed or requeued.
C22_Untracked ==
    \A j \in Jobs :
        /\ j \in tracked => Attempting(j)
        /\ "tracked" \in ev[j] /\ Ended(j) => Disposed(j)

\* C22: provided every external call eventually returns, every processing
\* attempt of a validated message ends, with processMessage's promise
\* resolved and the message untracked through a remove or a requeue, so
\* that no handle stays in the tracked lease set for ever.
C22_Terminates ==
    /\ []C22_Untracked
    /\ \A j \in Jobs : Attempting(j) ~> Ended(j)

\* Reached: an attempt that went as far as the upload, failed there, and
\* ended with its message requeued and its handle out of the lease set.
C22_Witness ==
    \E j \in Jobs :
        /\ "tracked" \in ev[j] /\ Ended(j)
        /\ "upload_failed" \in ev[j] /\ "requeued" \in ev[j]
        /\ j \notin tracked

====
